---- MODULE Spec2Model ----
(***************************************************************************)
(* Model of ai_pipeline/pipelines.py: the component tree (_Component), the *)
(* pipeline builder (BasePipeline) with its add-step operations, the two   *)
(* stack traversals (print_structure, to_graph) and the KubeFlow generator *)
(* (KfpPipeline.generate_pipeline).                                        *)
(*                                                                         *)
(* Python objects live in `heap`, a map from addresses to _Component       *)
(* records; references are addresses.  Python values passed as optional    *)
(* arguments are written as the strings of their literals.                 *)
(***************************************************************************)
EXTENDS Integers, Sequences, FiniteSets, TLC

VARIABLES heap, size, job_id, now, ret, history, file, uploaded, pc, frame

vars == <<heap, size, job_id, now, ret, history, file, uploaded, pc, frame>>

(***************************************************************************)
(* Bounds of the model.                                                    *)
(***************************************************************************)
\* Add-step calls explored per pipeline in the tree specifications.
MaxNodes == 3
\* Add-step calls explored in the specification that varies the arguments.
MaxParamCalls == 2
\* Add-step calls explored where the traversals are run step by step.
MaxLoopNodes == 2
\* Loop iterations explored of a traversal that is run step by step.
MaxIter == 7
\* Direct add_child calls explored.
MaxLinks == 2
\* Add-step calls explored in the specification of the generator.
MaxGenNodes == 2
\* Chunks of the rendered text that a failing write is explored to leave.
MaxWritten == 2

(***************************************************************************)
(* Python values.                                                          *)
(***************************************************************************)
\* The value None of an optional argument.
None == "None"
\* The null reference (parent=None).
NoneRef == -2
\* Optional-argument values: None, the falsy 0 and '', and a truthy string.
ArgValues == {None, "0", "''", "'gs://x'"}
\* Argument values used where the tree shape, not the parameters, is explored.
TreeArgValues == {None, "0"}

\* bool(v) for an argument value.
Truthy(v) == v \notin {None, "0", "''"}

\* bool(d) for a dict: a dict is falsy exactly when it is empty.
DictTruthy(d) == DOMAIN d # {}

EmptyDict == [k \in {} |-> None]

\* `if not parent`: _Component defines neither __bool__ nor __len__, so every
\* component is truthy; only None is falsy.
RefTruthy(r) == r # NoneRef

Min(a, b) == IF a < b THEN a ELSE b
Last(s) == s[Len(s)]
Front(s) == SubSeq(s, 1, Len(s) - 1)

RECURSIVE Reverse(_)
Reverse(s) == IF s = <<>> THEN <<>> ELSE Append(Reverse(Tail(s)), Head(s))

(***************************************************************************)
(* _Component                                                              *)
(***************************************************************************)
\* Address of the root component created by BasePipeline.__init__.
structure == 0
\* Address of a component the caller holds that this pipeline did not create
\* (the first node of another pipeline: role train, id 0, no children).
Foreign == 1000

Component(role, comp_id, params) ==
    [role |-> role,
     id |-> comp_id,
     params |-> IF DictTruthy(params) THEN params ELSE EmptyDict,
     children |-> <<>>]

\* add_child with the new child put first (insert(0, comp)) instead of last.
add_child_front(h, self, comp) ==
    [h EXCEPT ![self].children = <<comp>> \o @]

\* heap after self.children.append(comp) on the component at address self.
add_child(h, self, comp) ==
    [h EXCEPT ![self].children = Append(@, comp)]

(***************************************************************************)
(* strftime                                                                *)
(***************************************************************************)
\* Days from 1970-01-01 to the civil date y-m-d (proleptic Gregorian).
DaysFromCivil(y, m, d) ==
    LET yy == IF m <= 2 THEN y - 1 ELSE y
        era == yy \div 400
        yoe == yy - era * 400
        mp == IF m > 2 THEN m - 3 ELSE m + 9
        doy == (153 * mp + 2) \div 5 + d - 1
        doe == yoe * 365 + yoe \div 4 - yoe \div 100 + doy
    IN era * 146097 + doe - 719468

EpochSeconds(t) ==
    DaysFromCivil(t.year, t.month, t.day) * 86400
        + t.hour * 3600 + t.minute * 60 + t.second

\* One strftime directive (C library semantics, as Python delegates to it):
\* %y two-digit year, %m month number, %d day of month, %h abbreviated month
\* name (same as %b), %s seconds since the epoch, %H hour, %M minute,
\* %S second; any other text is copied.
Directive(d, t) ==
    CASE d = "%y" -> [field |-> "year2", value |-> t.year % 100]
      [] d = "%m" -> [field |-> "month", value |-> t.month]
      [] d = "%d" -> [field |-> "day", value |-> t.day]
      [] d = "%h" -> [field |-> "monthname", value |-> t.month]
      [] d = "%s" -> [field |-> "epoch", value |-> EpochSeconds(t)]
      [] d = "%H" -> [field |-> "hour", value |-> t.hour]
      [] d = "%M" -> [field |-> "minute", value |-> t.minute]
      [] d = "%S" -> [field |-> "second", value |-> t.second]
      [] OTHER -> [field |-> d, value |-> 0]

RECURSIVE strftime(_, _)
strftime(fmt, t) ==
    IF fmt = <<>> THEN <<>>
    ELSE <<Directive(Head(fmt), t)>> \o strftime(Tail(fmt), t)

\* The format string of BasePipeline.__init__, split into its directives.
JobIdFormat == <<"%y", "%m", "%d", "_", "%h", "%m", "%s">>

\* "{}_{}".format(self.model.model["name"], now)
JobId(name, t) == [name |-> name, sep |-> "_", stamp |-> strftime(JobIdFormat, t)]

ModelName == "census"

\* Construction times explored.
Times ==
    [year : {2020}, month : {3}, day : {7}, hour : {9},
     minute : {30}, second : {5, 6}]

(***************************************************************************)
(* Return value of the last call on the pipeline.                          *)
(***************************************************************************)
NoRet ==
    [op |-> "__init__", parent |-> NoneRef, kwargs |-> EmptyDict,
     node |-> NoneRef, components |-> <<>>, relations |-> <<>>,
     visited |-> <<>>, printed |-> <<>>, text |-> <<>>, error |-> ""]

NoFrame ==
    [next_comps |-> <<>>, components |-> <<>>, relations |-> <<>>,
     visited |-> <<>>, printed |-> <<>>, error |-> "", iter |-> 0]

NoFile == [exists |-> FALSE, content |-> <<>>]

(***************************************************************************)
(* BasePipeline.__init__                                                   *)
(***************************************************************************)
Init ==
    /\ heap = [a \in {structure, Foreign} |->
                 IF a = structure THEN Component("start", -1, EmptyDict)
                 ELSE Component("train", 0, EmptyDict)]
    /\ size = 0
    /\ now \in Times
    /\ job_id = JobId(ModelName, now)
    /\ ret = NoRet
    /\ history = <<>>
    /\ file = NoFile
    /\ uploaded = FALSE
    /\ pc = "idle"
    /\ frame = NoFrame

(***************************************************************************)
(* add_train_component / add_deploy_component / add_predict_component      *)
(***************************************************************************)
\* The filter with a truthiness test (`if v`) in place of `is not None`.
FilterTruthy(d) ==
    [k \in {x \in DOMAIN d : Truthy(d[x])} |-> d[k]]

\* params = {k: v for k, v in params.items() if v is not None}
FilterNotNone(d) ==
    [k \in {x \in DOMAIN d : d[x] # None} |-> d[k]]

\* Ids counted from one (the size read after it was incremented).
NextIdOneBased(sz) == sz + 1

\* The id given to the next component.
NextId(sz) == sz

\* Address of the object the next _Component(...) call allocates.
NewAddr == size + 1

\* The part the three add-step methods share: resolve the parent, filter the
\* parameters, create the component, attach it, count it, return it.
AddComponent(op, role, parent, d, kwargs) ==
    LET p == IF ~RefTruthy(parent) THEN structure ELSE parent
        params == FilterNotNone(d)
        component == NewAddr
        created == [a \in DOMAIN heap \cup {component} |->
                      IF a = component
                      THEN Component(role, NextId(size), params)
                      ELSE heap[a]]
    IN /\ pc = "idle"
       /\ heap' = add_child(created, p, component)
       /\ size' = size + 1
       /\ ret' = [NoRet EXCEPT !.op = op, !.parent = parent,
                               !.kwargs = kwargs, !.node = component]
       /\ history' = Append(history, [node |-> component, parent |-> p])
       /\ UNCHANGED <<job_id, now, file, uploaded, pc, frame>>

add_train_component(parent, wait_interval) ==
    AddComponent("add_train_component", "train", parent,
                 [wait_interval |-> wait_interval],
                 [wait_interval |-> wait_interval])

add_deploy_component(parent, model_uri, wait_interval) ==
    AddComponent("add_deploy_component", "deploy", parent,
                 [model_uri |-> model_uri, wait_interval |-> wait_interval],
                 [model_uri |-> model_uri, wait_interval |-> wait_interval])

add_predict_component(parent, model, version) ==
    AddComponent("add_predict_component", "predict", parent,
                 [model_id |-> model, version_id |-> version],
                 [model |-> model, version |-> version])

(***************************************************************************)
(* to_graph and print_structure                                            *)
(***************************************************************************)
\* pop(0): the list used as a queue instead of a stack.
PopFront(next_comps) == [comp |-> Head(next_comps), rest |-> Tail(next_comps)]

\* comp = next_comps.pop(): the popped component and the remaining stack.
Pop(next_comps) == [comp |-> Last(next_comps), rest |-> Front(next_comps)]

\* next_comps = comp.children: the pending components are dropped whenever
\* the popped one has children.
ExtendReplace(next_comps, children) ==
    IF children = <<>> THEN next_comps ELSE children

\* extend with a visited check: children the running traversal has already
\* popped are not pushed again.
ExtendUnvisited(next_comps, children) ==
    next_comps \o SelectSeq(children,
                            LAMBDA c : \A i \in 1..Len(frame.visited) :
                                          frame.visited[i] # c)

\* next_comps.extend(comp.children)
Extend(next_comps, children) == next_comps \o children

\* The append moved out of the for loop: only the last child is recorded.
EdgesLastOnly(h, comp) ==
    IF h[comp].children = <<>> THEN <<>>
    ELSE <<<<h[comp].id, h[Last(h[comp].children)].id>>>>

\* The pairs to_graph appends for one component, in child-list order.
Edges(h, comp) ==
    [i \in 1..Len(h[comp].children) |-> <<h[comp].id, h[h[comp].children[i]].id>>]

\* One iteration of the while loop of to_graph on the locals f and heap h.
\* components[comp.id] = comp raises IndexError when comp.id is not an index
\* of components (indices -len..len-1; the id -1 is skipped by the test).
ToGraphBody(f, h) ==
    LET popped == Pop(f.next_comps)
        comp == popped.comp
        cid == h[comp].id
        n == Len(f.components)
        idx == IF cid >= 0 THEN cid + 1 ELSE n + cid + 1
        stack == Extend(popped.rest, h[comp].children)
    IN IF cid # -1 /\ (idx < 1 \/ idx > n)
       THEN [f EXCEPT !.next_comps = stack,
                      !.visited = Append(@, comp),
                      !.error = "IndexError",
                      !.iter = @ + 1]
       ELSE [f EXCEPT !.next_comps = stack,
                      !.components = IF cid # -1 THEN [@ EXCEPT ![idx] = comp] ELSE @,
                      !.relations = @ \o Edges(h, comp),
                      !.visited = Append(@, comp),
                      !.iter = @ + 1]

\* One iteration of the while loop of print_structure.
PrintBody(f, h) ==
    LET popped == Pop(f.next_comps)
        comp == popped.comp
        line == [id |-> h[comp].id,
                 children |-> [i \in 1..Len(h[comp].children) |->
                                 h[h[comp].children[i]].id]]
    IN [f EXCEPT !.next_comps = Extend(popped.rest, h[comp].children),
                 !.printed = IF h[comp].id # -1 THEN Append(@, line) ELSE @,
                 !.visited = Append(@, comp),
                 !.iter = @ + 1]

\* The locals of to_graph before its loop.
ToGraphEntry(sz) ==
    [NoFrame EXCEPT !.components = [i \in 1..sz |-> NoneRef],
                    !.next_comps = <<structure>>]

PrintEntry == [NoFrame EXCEPT !.next_comps = <<structure>>]

\* next_comps aliasing the root's child list: the pops empty that list.
HeapDrained(h, f) == [h EXCEPT ![structure].children = <<>>]

\* The heap as a traversal leaves it: both loops only read the components and
\* pop from their own list next_comps.
HeapAfterTraversal(h, f) == h

RECURSIVE ToGraphLoop(_, _)
ToGraphLoop(f, h) ==
    IF f.next_comps = <<>> \/ f.error # "" THEN f
    ELSE ToGraphLoop(ToGraphBody(f, h), h)

RECURSIVE PrintLoop(_, _)
PrintLoop(f, h) ==
    IF f.next_comps = <<>> THEN f ELSE PrintLoop(PrintBody(f, h), h)

\* A whole call of to_graph on a structure without cycles.
to_graph ==
    LET f == ToGraphLoop(ToGraphEntry(size), heap)
    IN /\ pc = "idle"
       /\ ret' = [NoRet EXCEPT !.op = "to_graph",
                               !.components = f.components,
                               !.relations = f.relations,
                               !.visited = f.visited,
                               !.error = f.error]
       /\ heap' = HeapAfterTraversal(heap, f)
       /\ UNCHANGED <<size, job_id, now, history, file, uploaded, pc, frame>>

\* A whole call of print_structure on a structure without cycles.
print_structure ==
    LET f == PrintLoop(PrintEntry, heap)
    IN /\ pc = "idle"
       /\ ret' = [NoRet EXCEPT !.op = "print_structure",
                               !.printed = f.printed,
                               !.visited = f.visited]
       /\ heap' = HeapAfterTraversal(heap, f)
       /\ UNCHANGED <<size, job_id, now, history, file, uploaded, pc, frame>>

(***************************************************************************)
(* KfpPipeline                                                             *)
(***************************************************************************)
\* The attributes and accessors of the model descriptor that the generator
\* reads; upload_trainer_dist() returns the package location.
Descriptor(framework) ==
    [project_id |-> "proj", scale_tier |-> "BASIC", region |-> "us-central1",
     runtime_version |-> "1.15", python_version |-> "3.7",
     framework |-> framework, name |-> ModelName,
     model_dir |-> "gs://bucket/model", job_dir |-> "gs://bucket/job",
     package_uri |-> "gs://bucket/trainer.tar.gz"]

\* The dict that _get_train_params serialises.
_get_train_params(model, jid) ==
    [project_id |-> model.project_id,
     job_id_prefix |-> [prefix |-> "train_", job_id |-> jid],
     training_input |->
        [scaleTier |-> model.scale_tier,
         packageUris |-> <<model.package_uri>>,
         pythonModule |-> "trainer.task",
         args |-> <<"--model_dir", model.model_dir>>,
         jobDir |-> model.job_dir,
         region |-> model.region,
         runtimeVersion |-> model.runtime_version,
         pythonVersion |-> model.python_version]]

\* The dict that _get_deploy_params serialises.
_get_deploy_params(model) ==
    LET params == [project_id |-> model.project_id,
                   model_id |-> [name |-> model.name, suffix |-> "_kfp"],
                   runtime_version |-> model.runtime_version,
                   python_version |-> model.python_version]
    IN IF model.framework # "tensorflow"
       THEN [k \in DOMAIN params \cup {"model_uri"} |->
               IF k = "model_uri" THEN model.model_dir ELSE params[k]]
       ELSE params

\* The rendered template as a sequence of chunks: one for the parameter
\* blobs, one per component, one per relation.
Render(train_params, model_dir, deploy_params, components, relations) ==
    <<[chunk |-> "params", train_params |-> train_params,
       model_dir |-> model_dir, deploy_params |-> deploy_params]>>
    \o [i \in 1..Len(components) |-> [chunk |-> "component", value |-> components[i]]]
    \o [i \in 1..Len(relations) |-> [chunk |-> "relation", value |-> relations[i]]]

\* The steps of generate_pipeline that can raise, in execution order; "" is
\* a call in which nothing raises.
Steps == <<"PackageLoader", "to_graph", "get_template", "upload_trainer_dist",
           "descriptor", "render", "open", "write">>

StepIndex(step) ==
    CASE step = "PackageLoader" -> 1
      [] step = "to_graph" -> 2
      [] step = "get_template" -> 3
      [] step = "upload_trainer_dist" -> 4
      [] step = "descriptor" -> 5
      [] step = "render" -> 6
      [] step = "open" -> 7
      [] step = "write" -> 8

\* TRUE when the call got past `step` (it raised later, or not at all).
Passed(failAt, step) == failAt = "" \/ StepIndex(failAt) > StepIndex(step)

\* The file opened before anything else is done: every failure after the
\* first step leaves it truncated.
FileAfterOpenFirst(failAt, text, written, old) ==
    IF Passed(failAt, "write") THEN [exists |-> TRUE, content |-> text]
    ELSE IF Passed(failAt, "PackageLoader")
         THEN [exists |-> TRUE, content |-> <<>>]
         ELSE old

\* The output file after a call that raised at failAt ("" for none), given
\* the rendered text and the number of chunks that reached the file before
\* a failing write.  open(..., "w+") truncates the file when it succeeds.
FileAfter(failAt, text, written, old) ==
    IF Passed(failAt, "write") THEN [exists |-> TRUE, content |-> text]
    ELSE IF Passed(failAt, "open")
         THEN [exists |-> TRUE, content |-> SubSeq(text, 1, written)]
         ELSE old

\* A whole call of generate_pipeline.  Nothing is caught: the first step that
\* raises ends the call and its name is the error the caller sees.  A write
\* that raises has put fewer chunks into the file than the text has.
generate_pipeline(framework, fail, written) ==
    LET model == Descriptor(framework)
        f == ToGraphLoop(ToGraphEntry(size), heap)
        failAt == IF f.error # "" /\ Passed(fail, "PackageLoader")
                  THEN "to_graph" ELSE fail
        text == Render(_get_train_params(model, job_id), model.model_dir,
                       _get_deploy_params(model), f.components, f.relations)
    IN /\ pc = "idle"
       /\ fail # "to_graph"
       /\ ret' = [NoRet EXCEPT !.op = "generate_pipeline",
                               !.text = IF Passed(failAt, "render")
                                        THEN text ELSE <<>>,
                               !.error = failAt]
       /\ file' = FileAfter(failAt, text, Min(written, Len(text) - 1), file)
       /\ uploaded' = (uploaded \/ Passed(failAt, "upload_trainer_dist"))
       /\ heap' = HeapAfterTraversal(heap, f)
       /\ UNCHANGED <<size, job_id, now, history, pc, frame>>

(***************************************************************************)
(* Specification of the builder: add-step calls and whole traversals.      *)
(***************************************************************************)
\* Parent arguments a caller can pass: nothing, the root, a component of this
\* pipeline, or a component this pipeline did not create.
Parents == {NoneRef} \cup DOMAIN heap

AddTrain ==
    \E parent \in Parents, wi \in TreeArgValues :
        size < MaxNodes /\ add_train_component(parent, wi)

AddDeploy ==
    \E parent \in Parents :
        size < MaxNodes /\ add_deploy_component(parent, "'gs://x'", None)

AddPredict ==
    \E parent \in Parents :
        size < MaxNodes /\ add_predict_component(parent, None, None)

Next == AddTrain \/ AddDeploy \/ AddPredict \/ to_graph \/ print_structure

Spec == Init /\ [][Next]_vars

(***************************************************************************)
(* Specification that varies the optional arguments of the add-step calls. *)
(***************************************************************************)
ParamTrain ==
    \E wi \in ArgValues :
        size < MaxParamCalls /\ add_train_component(NoneRef, wi)

ParamDeploy ==
    \E uri \in ArgValues, wi \in ArgValues :
        size < MaxParamCalls /\ add_deploy_component(NoneRef, uri, wi)

ParamPredict ==
    \E m \in ArgValues, v \in ArgValues :
        size < MaxParamCalls /\ add_predict_component(NoneRef, m, v)

NextParams == ParamTrain \/ ParamDeploy \/ ParamPredict

SpecParams == Init /\ [][NextParams]_vars

(***************************************************************************)
(* Specification of the generator: add-step calls and generate_pipeline.   *)
(***************************************************************************)
GenAdd ==
    \E parent \in {NoneRef} \cup (DOMAIN heap \ {structure, Foreign}) :
        /\ size < MaxGenNodes
        /\ \/ add_train_component(parent, None)
           \/ add_deploy_component(parent, "'gs://x'", None)

Generate ==
    \E framework \in {"tensorflow", "sklearn"},
       fail \in ({Steps[i] : i \in 1..Len(Steps)} \ {"to_graph"}) \cup {""} :
        \E written \in (IF fail = "write" THEN 0..MaxWritten ELSE {0}) :
            generate_pipeline(framework, fail, written)

NextGen == GenAdd \/ Generate

SpecGen == Init /\ [][NextGen]_vars

(***************************************************************************)
(* Specification of the traversals run one loop iteration at a time, on    *)
(* structures that direct add_child calls may have made cyclic.            *)
(***************************************************************************)
\* The components this pipeline created, and its root.
Own == DOMAIN heap \ {Foreign}

\* Number of direct add_child calls so far: the links no add-step call made.
RECURSIVE CountLinks(_)
CountLinks(S) ==
    IF S = {} THEN 0
    ELSE LET a == CHOOSE x \in S : TRUE
         IN Len(heap[a].children) + CountLinks(S \ {a})

DirectLinks == CountLinks(DOMAIN heap) - Len(history)

LoopAdd ==
    \E parent \in {NoneRef} \cup (Own \ {structure}) :
        size < MaxLoopNodes /\ add_train_component(parent, None)

\* A direct call self.add_child(comp) by the caller, on components of this
\* pipeline.
DirectAddChild ==
    \E self \in Own, comp \in Own :
        /\ pc = "idle"
        /\ DirectLinks < MaxLinks
        /\ heap' = add_child(heap, self, comp)
        /\ ret' = [NoRet EXCEPT !.op = "add_child", !.parent = self, !.node = comp]
        /\ UNCHANGED <<size, job_id, now, history, file, uploaded, pc, frame>>

CallToGraph ==
    /\ pc = "idle"
    /\ pc' = "to_graph"
    /\ frame' = ToGraphEntry(size)
    /\ ret' = NoRet
    /\ UNCHANGED <<heap, size, job_id, now, history, file, uploaded>>

IterToGraph ==
    /\ pc = "to_graph"
    /\ frame.next_comps # <<>>
    /\ frame.error = ""
    /\ frame.iter < MaxIter
    /\ frame' = ToGraphBody(frame, heap)
    /\ heap' = HeapAfterTraversal(heap, frame')
    /\ UNCHANGED <<size, job_id, now, ret, history, file, uploaded, pc>>

ReturnToGraph ==
    /\ pc = "to_graph"
    /\ frame.next_comps = <<>> \/ frame.error # ""
    /\ pc' = "idle"
    /\ ret' = [NoRet EXCEPT !.op = "to_graph",
                            !.components = frame.components,
                            !.relations = frame.relations,
                            !.visited = frame.visited,
                            !.error = frame.error]
    /\ frame' = NoFrame
    /\ UNCHANGED <<heap, size, job_id, now, history, file, uploaded>>

CallPrint ==
    /\ pc = "idle"
    /\ pc' = "print_structure"
    /\ frame' = PrintEntry
    /\ ret' = NoRet
    /\ UNCHANGED <<heap, size, job_id, now, history, file, uploaded>>

IterPrint ==
    /\ pc = "print_structure"
    /\ frame.next_comps # <<>>
    /\ frame.iter < MaxIter
    /\ frame' = PrintBody(frame, heap)
    /\ heap' = HeapAfterTraversal(heap, frame')
    /\ UNCHANGED <<size, job_id, now, ret, history, file, uploaded, pc>>

ReturnPrint ==
    /\ pc = "print_structure"
    /\ frame.next_comps = <<>>
    /\ pc' = "idle"
    /\ ret' = [NoRet EXCEPT !.op = "print_structure",
                            !.printed = frame.printed,
                            !.visited = frame.visited]
    /\ frame' = NoFrame
    /\ UNCHANGED <<heap, size, job_id, now, history, file, uploaded>>

InitLoop == Init /\ now.second = 5

NextLoop ==
    \/ LoopAdd
    \/ DirectAddChild
    \/ CallToGraph
    \/ IterToGraph
    \/ ReturnToGraph
    \/ CallPrint
    \/ IterPrint
    \/ ReturnPrint

SpecLoop == InitLoop /\ [][NextLoop]_vars

(***************************************************************************)
(* Properties                                                              *)
(***************************************************************************)
AddOps == {"add_train_component", "add_deploy_component", "add_predict_component"}

\* The components created by the add-step calls so far.
Created == {history[k].node : k \in 1..Len(history)}

\* Every parent argument so far was omitted, the root, or a component that an
\* earlier call on this pipeline returned.
OwnParentsOnly ==
    \A k \in 1..Len(history) :
        history[k].parent \in {structure} \cup {history[j].node : j \in 1..(k - 1)}

Range(seq) == {seq[i] : i \in 1..Len(seq)}

\* C1: after N add-step calls size is N, the component created by the k-th
\* call (from 0) has id k, so the ids are pairwise distinct and lie in
\* 0..size-1, and the root keeps id -1 and is not among the counted ones.
IdsFollowCreationOrder ==
    /\ size = Len(history)
    /\ \A k \in 1..Len(history) : heap[history[k].node].id = k - 1
    /\ \A a \in Created : heap[a].id \in 0..(size - 1)
    /\ \A a \in Created, b \in Created : a # b => heap[a].id # heap[b].id
    /\ Cardinality(Created) = size
    /\ heap[structure].id = -1
    /\ structure \notin Created

\* Three calls of different kinds, one of them on a component that this
\* pipeline did not create.
IdsWitness ==
    /\ size = 3
    /\ \E k \in 1..Len(history) : history[k].parent = Foreign
    /\ \E k \in 1..Len(history) : history[k].parent \in Created
    /\ heap[history[3].node].role = "predict"

\* C2: when every parent was omitted, the root or an earlier returned
\* component, to_graph returns size components, the i-th (from 0) being the
\* component with id i, never an empty slot and never the root.
ComponentsIndexedById ==
    (ret.op = "to_graph" /\ OwnParentsOnly) =>
        /\ ret.error = ""
        /\ Len(ret.components) = size
        /\ \A i \in 1..size :
              /\ ret.components[i] # NoneRef
              /\ ret.components[i] # structure
              /\ ret.components[i] \in Created
              /\ heap[ret.components[i]].id = i - 1

\* to_graph has run on a tree of three components with a chain under the root.
ComponentsWitness ==
    /\ ret.op = "to_graph"
    /\ OwnParentsOnly
    /\ size = 3
    /\ \E k \in 1..Len(history) : history[k].parent # structure
    /\ Len(heap[structure].children) = 2

\* The (parent id, child id) pairs of the links the add-step calls made.
Links == {<<heap[history[k].parent].id, heap[history[k].node].id>> :
            k \in 1..Len(history)}

RelationsAreTheLinks ==
    /\ Range(ret.relations) = Links
    /\ Cardinality(Range(ret.relations)) = Len(ret.relations)
    /\ Len(ret.relations) = Len(history)
    /\ Len(ret.relations) = size

\* C3 as stated: after any sequence of add-step calls the relations returned
\* by to_graph are exactly the links the calls made, each once, size of them.
RelationsCoverEveryLink ==
    ret.op = "to_graph" => RelationsAreTheLinks

\* C3 amended: the same, for sequences in which every parent argument was
\* omitted, the root, or a component an earlier call on this pipeline returned.
RelationsCoverOwnLinks ==
    (ret.op = "to_graph" /\ OwnParentsOnly) => RelationsAreTheLinks

\* to_graph has returned three relations, one of them below a non-root parent.
RelationsWitness ==
    /\ ret.op = "to_graph"
    /\ OwnParentsOnly
    /\ Len(ret.relations) = 3
    /\ \E i \in 1..Len(ret.relations) : ret.relations[i][1] # -1
    /\ \E a \in Created : Len(heap[a].children) = 2

\* The parameter key that an optional argument of an add-step call sets.
ParamKey(arg) ==
    CASE arg = "model" -> "model_id"
      [] arg = "version" -> "version_id"
      [] OTHER -> arg

OptionalArgs(op) ==
    CASE op = "add_train_component" -> {"wait_interval"}
      [] op = "add_deploy_component" -> {"model_uri", "wait_interval"}
      [] op = "add_predict_component" -> {"model", "version"}

\* C4: the parameter map of the component an add-step call created has the
\* key of an optional argument exactly when the argument was supplied (was
\* not None), with the supplied value, falsy or not; it has no other key and
\* no None value, so it is empty when nothing was supplied.
ParamsHoldSuppliedArgs ==
    ret.op \in AddOps =>
        LET params == heap[ret.node].params
        IN /\ DOMAIN ret.kwargs = OptionalArgs(ret.op)
           /\ \A arg \in OptionalArgs(ret.op) :
                 /\ ParamKey(arg) \in DOMAIN params <=> ret.kwargs[arg] # None
                 /\ ParamKey(arg) \in DOMAIN params =>
                       params[ParamKey(arg)] = ret.kwargs[arg]
           /\ DOMAIN params \subseteq {ParamKey(arg) : arg \in OptionalArgs(ret.op)}
           /\ \A k \in DOMAIN params : params[k] # None
           /\ (\A arg \in OptionalArgs(ret.op) : ret.kwargs[arg] = None)
                 => params = EmptyDict

\* A deploy call given an empty model_uri and no wait_interval, after a
\* predict call given version 0 and no model.
ParamsWitness ==
    /\ ret.op = "add_deploy_component"
    /\ ret.kwargs.model_uri = "''"
    /\ ret.kwargs.wait_interval = None
    /\ DOMAIN heap[ret.node].params = {"model_uri"}
    /\ \E a \in Created :
          /\ heap[a].role = "predict"
          /\ DOMAIN heap[a].params = {"version_id"}
          /\ heap[a].params.version_id = "0"

RoleOf(op) ==
    CASE op = "add_train_component" -> "train"
      [] op = "add_deploy_component" -> "deploy"
      [] op = "add_predict_component" -> "predict"

\* C5: an add-step call creates one new childless component of the call's
\* role, appends it as the last child of the given parent (of the root when
\* none is given) and returns it; every other component is left as it was,
\* and the parent keeps its id, role, parameters and earlier children.
AddStepFrame ==
    [][size' # size =>
        LET new == ret'.node
            p == IF ret'.parent = NoneRef THEN structure ELSE ret'.parent
        IN /\ ret'.op \in AddOps
           /\ size' = size + 1
           /\ new \notin DOMAIN heap
           /\ DOMAIN heap' = DOMAIN heap \cup {new}
           /\ heap'[new].role = RoleOf(ret'.op)
           /\ heap'[new].children = <<>>
           /\ heap'[p].children = Append(heap[p].children, new)
           /\ heap'[p].id = heap[p].id
           /\ heap'[p].role = heap[p].role
           /\ heap'[p].params = heap[p].params
           /\ \A a \in DOMAIN heap \ {p} : heap'[a] = heap[a]
           /\ history' = Append(history, [node |-> new, parent |-> p])]_vars

\* The last call appended its component after an earlier child of a parent
\* that is not the root.
AddStepWitness ==
    /\ ret.op = "add_deploy_component"
    /\ ret.parent \in Created
    /\ Len(heap[ret.parent].children) = 2
    /\ Last(heap[ret.parent].children) = ret.node
    /\ heap[ret.node].children = <<>>

BeforeOpen ==
    {"PackageLoader", "to_graph", "get_template", "upload_trainer_dist",
     "descriptor", "render", "open"}

IsProperPrefix(a, b) == Len(a) < Len(b) /\ a = SubSeq(b, 1, Len(a))

\* C6 as stated: a generate_pipeline call that fails leaves the output file
\* with the content it had before the call or with the complete rendered
\* text of this call.
GenerateAllOrNothing ==
    [][(ret'.op = "generate_pipeline" /\ ret'.error # "") =>
          \/ file' = file
          \/ file'.exists /\ file'.content = ret'.text /\ ret'.text # <<>>]_vars

\* C6 amended: the first failing step ends the call with its error.  When the
\* failure comes before the file is open (the open included) the file keeps
\* its content; when the write fails the file exists and holds a proper
\* prefix, possibly empty, of the rendered text; when nothing fails it holds
\* the complete rendered text.
GenerateFileOutcome ==
    [][ret'.op = "generate_pipeline" =>
          /\ ret'.error \in BeforeOpen => file' = file
          /\ ret'.error = "write" =>
                /\ file'.exists
                /\ IsProperPrefix(file'.content, ret'.text)
          /\ ret'.error = "" =>
                /\ file'.exists
                /\ file'.content = ret'.text
                /\ Len(ret'.text) = 1 + size + Len(ToGraphLoop(ToGraphEntry(size), heap).relations)
          /\ ret'.error \in BeforeOpen \cup {"write", ""}]_vars

\* A write failed on a pipeline of two components after an earlier call had
\* written the file: the file is left with part of the new text.
GenerateWitness ==
    /\ ret.op = "generate_pipeline"
    /\ ret.error = "write"
    /\ size = 2
    /\ file.exists
    /\ Len(file.content) = 2
    /\ IsProperPrefix(file.content, ret.text)

\* The fields of a timestamp, without the text between them.
StampFields(stamp) ==
    SelectSeq(stamp, LAMBDA x : x.field \in {"year2", "month", "day", "monthname",
                                             "epoch", "hour", "minute", "second"})

\* C7: job_id is the model name, an underscore and the construction time as
\* two-digit year, month, day, hour, minute, second, in this order.
JobIdIsNameAndTimestamp ==
    /\ job_id.name = ModelName
    /\ job_id.sep = "_"
    /\ StampFields(job_id.stamp) =
          <<[field |-> "year2", value |-> now.year % 100],
            [field |-> "month", value |-> now.month],
            [field |-> "day", value |-> now.day],
            [field |-> "hour", value |-> now.hour],
            [field |-> "minute", value |-> now.minute],
            [field |-> "second", value |-> now.second]>>

\* The components reachable from those of S along child links.
RECURSIVE ReachFrom(_)
ReachFrom(S) ==
    LET T == S \cup UNION {Range(heap[a].children) : a \in S}
    IN IF T = S THEN S ELSE ReachFrom(T)

OnCycle(a) == a \in ReachFrom(Range(heap[a].children))

\* A cycle is reachable from the component a.
ReachesCycle(a) == \E b \in ReachFrom({a}) : OnCycle(b)

RECURSIVE Flatten(_)
Flatten(ss) == IF ss = <<>> THEN <<>> ELSE Head(ss) \o Flatten(Tail(ss))

\* Depth-first order from a, the children of every component taken from the
\* last added to the first, each with its whole subtree.
RECURSIVE RevPreorder(_)
RevPreorder(a) ==
    LET kids == Reverse(heap[a].children)
    IN <<a>> \o Flatten([i \in 1..Len(kids) |-> RevPreorder(kids[i])])

\* The (id, child id) pairs of one component, in insertion order.
PairsOf(a) ==
    [i \in 1..Len(heap[a].children) |-> <<heap[a].id, heap[heap[a].children[i]].id>>]

\* C9: to_graph pops the components in depth-first order with the siblings
\* reversed, and relations is the concatenation, in that order, of the
\* (id, child id) pairs of each popped component.
RelationsInVisitOrder ==
    ret.op = "to_graph" =>
        /\ ret.visited = RevPreorder(structure)
        /\ ret.relations =
              Flatten([i \in 1..Len(ret.visited) |-> PairsOf(ret.visited[i])])

\* to_graph has run on a root with two children, the first of which has a
\* child of its own.
VisitOrderWitness ==
    /\ ret.op = "to_graph"
    /\ Len(heap[structure].children) = 2
    /\ heap[heap[structure].children[1]].children # <<>>
    /\ Len(ret.relations) = 3

\* C10: to_graph and print_structure leave the components and size as they
\* were, only add-step calls change them, and a to_graph call right after a
\* to_graph call returns the same components and relations.
TraversalsReadOnly ==
    [][/\ ret'.op \in {"to_graph", "print_structure"} =>
             /\ heap' = heap
             /\ size' = size
             /\ job_id' = job_id
       /\ (heap' # heap \/ size' # size) => ret'.op \in AddOps
       /\ (ret.op = "to_graph" /\ ret'.op = "to_graph") =>
             /\ ret'.components = ret.components
             /\ ret'.relations = ret.relations]_vars

\* print_structure has printed the lines of two components, the first
\* printed one being the parent of the second.
ReadOnlyWitness ==
    /\ ret.op = "print_structure"
    /\ size = 2
    /\ Len(ret.printed) = 2
    /\ ret.printed[1].children = <<ret.printed[2].id>>

====
